---- MODULE Spec2Model ----
(***************************************************************************)
(* SQLite::Protocol of udjat-module-sqlite: the durable outbox dispatcher. *)
(*                                                                         *)
(* The repository carries two builds of the class:                         *)
(*   "guarded" -- src/unnamed/part_000: send() takes a mutex-guarded busy  *)
(*                flag, Worker::get pushes a sweep task to the thread      *)
(*                pool, retry() runs a sweep, ~Protocol waits for workers; *)
(*   "timer"   -- src/unnamed/part_001: a main-loop timer callback sets    *)
(*                busy and pushes the sweep task, Worker::get resets the   *)
(*                timer, ~Protocol removes the timer.                      *)
(* The variable build says which one a behaviour is about.                 *)
(***************************************************************************)
EXTENDS Integers, Sequences, FiniteSets, TLC

\* Bounds of the model.
MaxId == 2          \* records inserted over a behaviour
MaxCount == 12      \* largest pending count a status is produced for

Threads == {1, 2}                    \* threads running sweeps (pool workers, retry() callers)
Methods == {"GET", "POST", "PUT"}    \* HTTP verbs a record may carry; PUT stands for "neither"
Builds == {"guarded", "timer"}
NoRec == [id |-> 0, method |-> "none"]
IdleThread == [pc |-> "idle", cur |-> NoRec, end |-> "none", kind |-> "none"]
IdleClient == [pc |-> "idle", id |-> 0, result |-> "none"]
NoStatus == [name |-> "", level |-> "", value |-> 0, number |-> <<>>, text |-> ""]

VARIABLES
    build,      \* which build of the class runs
    cfg,        \* retry.interval, retry.notify, pending template configured
    queue,      \* the queue table: records in ascending id
    nextId,     \* the table's autoincrement counter
    mainloop,   \* MainLoop::getInstance() is running
    dstate,     \* the Protocol object: Running, Waiting (in ~Protocol), Stopped,
                \* Failed (its constructor threw)
    busy,       \* Protocol::busy
    timer,      \* the object's main-loop timer: none, interval, when_busy, soon
    pool,       \* tasks pushed to ThreadPool and not yet started
    th,         \* per thread: position in send()/the task, record in hand
    enq,        \* the caller of Worker::get
    snap,       \* queue as the running sweep found it          (history)
    calls,      \* ids the running sweep issued transport calls for (history)
    removed,    \* ids deleted by a sweep's delete statement     (history)
    uaf,        \* a thread touched the object after ~Protocol returned
    escaped,    \* an exception left a pool task
    published,  \* retry.state, NoStatus when none
    value,      \* Protocol::value, the member state() reads
    shown,      \* the status state() returned last
    sent        \* ids a transport call has completed for        (history)

vars == <<build, cfg, queue, nextId, mainloop, dstate, busy, timer, pool, th, enq,
          snap, calls, removed, uaf, escaped, published, value, shown, sent>>

Ids(q) == {q[i].id : i \in 1..Len(q)}

\* retry.notify only matters with a pending template: without one it is left false.
Configs ==
    {c \in [interval : {0, 1}, pending : BOOLEAN, notify : BOOLEAN] : c.notify => c.pending}

\* Threads are interchangeable: new work goes to the first idle one.
Free(t) ==
    /\ th[t].pc = "idle"
    /\ \A u \in Threads : u < t => th[u].pc # "idle"

\* Protocol::verify(protocol): the object is still registered.
verify == dstate \in {"Running", "Waiting"}

\* ~Protocol has returned or the constructor threw: the object's storage has
\* been released.
Gone == dstate \in {"Stopped", "Failed"}

\* SQLite::Protocol::count()
count == IF cfg.pending THEN Len(queue) ELSE 0

(***************************************************************************)
(* Status labels.  A summary is the decimal digits of a number (empty when *)
(* the text carries none) followed by a fixed text.                        *)
(***************************************************************************)
RECURSIVE DropFirst(_)
\* Fault variant of to_string: the leading digit is lost.
DropFirst(n) == IF n < 10 THEN <<>> ELSE Append(DropFirst(n \div 10), n % 10)

RECURSIVE to_string(_)
\* std::to_string(value) and the "{}" of Logger::Message: decimal digits.
to_string(n) == IF n < 10 THEN <<n>> ELSE Append(to_string(n \div 10), n % 10)

\* SQLite::Protocol::state() on the stored member value.
state ==
    IF cfg.pending
    THEN IF value = 0
         THEN [name |-> "empty", level |-> "unimportant", value |-> 0,
               number |-> <<>>, text |-> "Output queue is empty"]
         ELSE IF value = 1
         THEN [name |-> "pending", level |-> "warning", value |-> 0,
               number |-> <<>>, text |-> "One pending request in the output queue"]
         ELSE [name |-> "pending", level |-> "warning", value |-> 0,
               number |-> to_string(value),
               text |-> " pending requests in the output queue"]
    ELSE [name |-> "none", level |-> "unimportant", value |-> 0,
          number |-> <<>>, text |-> "No pending requests"]

\* SQLState(int64_t value): the state published after a sweep.
SQLState(v) ==
    IF v = 0
    THEN [name |-> "SQLite", level |-> "ready", value |-> v,
          number |-> <<>>, text |-> "No pending messages"]
    ELSE IF v = 1
    THEN [name |-> "SQLite", level |-> "ready", value |-> v,
          number |-> <<>>, text |-> "1 pending message"]
    ELSE [name |-> "SQLite", level |-> "ready", value |-> v,
          number |-> to_string(v), text |-> " pending messages"]

\* MainLoop::reset(this, ms): re-arms the object's timer if it has one.
reset(to) == IF timer = "none" THEN "none" ELSE to

\* Timer registration in the constructor.
Registered == IF build = "timer" /\ cfg.interval > 0 THEN "interval" ELSE "none"

Init ==
    /\ build \in Builds
    /\ cfg \in Configs
    /\ (build = "guarded" => cfg.interval = 0 /\ cfg.notify = cfg.pending)
    /\ queue = <<>>
    /\ nextId = 1
    /\ mainloop = TRUE
    /\ dstate = "Running"
    /\ busy = FALSE
    /\ timer = Registered
    /\ pool = 0
    /\ th = [t \in Threads |-> IdleThread]
    /\ enq = IdleClient
    /\ snap = <<>>
    /\ calls = <<>>
    /\ removed = {}
    /\ uaf = FALSE
    /\ escaped = FALSE
    /\ published = NoStatus
    /\ value = 0
    /\ shown = NoStatus
    /\ sent = {}

(***************************************************************************)
(* Worker::get -- Enqueue.                                                 *)
(***************************************************************************)
\* stmt.exec() of the insert statement succeeds.
Insert(m) ==
    /\ queue' = Append(queue, [id |-> nextId, method |-> m])
    /\ nextId' = nextId + 1
    /\ enq' = [pc |-> "inserted", id |-> nextId, result |-> "none"]

\* Fault variant of InsertFails: the exception is raised after the row was
\* written and the sweep task pushed.
InsertFailsLate ==
    /\ enq' = [pc |-> "inserted", id |-> 0, result |-> "error"]
    /\ queue' = Append(queue, [id |-> nextId, method |-> "GET"])
    /\ nextId' = nextId + 1

\* Statement construction, bind or exec throws: Worker::get is left at once.
InsertFails ==
    /\ enq' = [pc |-> "idle", id |-> 0, result |-> "error"]
    /\ UNCHANGED <<queue, nextId>>

WorkerGetExec ==
    /\ enq.pc = "idle"
    /\ dstate # "Failed"
    /\ nextId <= MaxId
    /\ \/ \E m \in Methods : Insert(m)
       \/ InsertFails
    /\ UNCHANGED <<build, cfg, value, shown, sent, mainloop, dstate, busy, timer, pool, th, snap, calls,
                   removed, uaf, escaped, published>>

\* What follows the insert: the guarded build pushes a sweep task when the
\* main loop runs, the timer build resets the timer to 100 ms.
Trigger ==
    IF build = "guarded"
    THEN /\ pool' = IF mainloop THEN pool + 1 ELSE pool
         /\ timer' = timer
    ELSE /\ timer' = reset("soon")
         /\ pool' = pool

WorkerGetReturn ==
    /\ enq.pc = "inserted"
    /\ Trigger
    /\ enq' = [pc |-> "idle", id |-> 0, result |-> "ok"]
    /\ UNCHANGED <<build, cfg, value, shown, sent, queue, nextId, mainloop, dstate, busy, th, snap, calls,
                   removed, uaf, escaped, published>>

(***************************************************************************)
(* SQLite::Protocol::send -- the sweep.  A step of send() on an object     *)
(* whose destructor has returned is a use after free: it is recorded in    *)
(* uaf, and a read of busy then yields either value.                       *)
(***************************************************************************)
Touch == uaf' = (uaf \/ Gone)

\* The sweep leaves its loop: the guarded build goes on to clear busy inside
\* send(), the timer build returns to the pool task (status, re-arm, clear).
AfterLoop == IF build = "guarded" THEN "release" ELSE "notify"

\* Fault variant of Left: the error is swallowed and the record deleted anyway.
LeftDeleting(r, why) == [r EXCEPT !.pc = "delete", !.end = why]

\* A thread that leaves the loop for the reason why (an exception caught by the
\* catch blocks, the loop condition false): nothing more is done to the record.
Left(r, why) == [r EXCEPT !.pc = AfterLoop, !.end = why]

SendExit(t, why) ==
    th' = [th EXCEPT ![t] = Left(@, why)]

\* Fault variant of GuardAdmits: the busy test is dropped.
GuardAdmitsAll(seen) == TRUE

\* if(busy) return;  -- the value read admits the caller or not.
GuardAdmits(seen) == ~seen

\* lock_guard; if(busy) return; busy = true;
SendGuard(t) ==
    /\ th[t].pc = "guard"
    /\ Touch
    /\ \E seen \in (IF Gone THEN BOOLEAN ELSE {busy}) :
          IF GuardAdmits(seen)
          THEN /\ busy' = TRUE
               /\ th' = [th EXCEPT ![t] = [@ EXCEPT !.pc = "select"]]
               /\ snap' = queue
               /\ calls' = <<>>
          ELSE /\ th' = [th EXCEPT ![t] = IdleThread]
               /\ UNCHANGED <<busy, snap, calls>>
    /\ UNCHANGED <<build, cfg, value, shown, sent, queue, nextId, mainloop, dstate, timer, pool, enq,
                   removed, escaped, published>>

\* Fault variant of Selected: the newest row comes first.
SelectedLast(q) == q[Len(q)]

\* The row select.step() returns: the select template orders by id.
Selected(q) == Head(q)

\* The conjuncts of the loop condition after select.step() returned a row.
LoopGoesOn == mainloop /\ (build = "guarded" => verify)

\* Statement del(...), select(...); while(select.step() == SQLITE_ROW && mainloop ...)
SendSelect(t) ==
    /\ th[t].pc = "select"
    /\ Touch
    /\ \/ SendExit(t, "store")                       \* prepare or step throws
       \/ /\ queue = <<>>
          /\ SendExit(t, "empty")
       \/ /\ queue # <<>>
          /\ ~LoopGoesOn
          /\ SendExit(t, "cancel")
       \/ /\ queue # <<>>
          /\ LoopGoesOn
          /\ th' = [th EXCEPT ![t] = [@ EXCEPT !.pc = "transport", !.cur = Selected(queue)]]
    /\ UNCHANGED <<build, cfg, value, shown, sent, queue, nextId, mainloop, dstate, busy, timer, pool, enq,
                   snap, calls, removed, escaped, published>>

\* switch(HTTP::MethodFactory(action)): the verbs that reach the transport.
Transported(m) == m \in {"GET", "POST"}

\* Fault variant of AfterDefault: the default arm leaves the iteration
\* (continue), so the record is neither sent nor deleted.
AfterDefaultSkips == "select"

\* Where send() continues after the switch on a verb with no case arm.
AfterDefault == "delete"

\* Fault variant of AfterCall: the select is reset without the delete.
AfterCallReselects == "select"

\* Where send() continues after client.get()/post() returned: break, then
\* del.bind(1,id).exec().
AfterCall == "delete"

SendTransport(t) ==
    /\ th[t].pc = "transport"
    /\ Touch
    /\ \/ /\ Transported(th[t].cur.method)           \* client.get()/post() returns
          /\ calls' = Append(calls, th[t].cur.id)
          /\ sent' = sent \cup {th[t].cur.id}
          /\ th' = [th EXCEPT ![t] = [@ EXCEPT !.pc = AfterCall]]
       \/ /\ Transported(th[t].cur.method)           \* client.get()/post() throws
          /\ calls' = Append(calls, th[t].cur.id)
          /\ sent' = sent
          /\ SendExit(t, "transport")
       \/ /\ ~Transported(th[t].cur.method)          \* default: "ignoring"
          /\ calls' = calls
          /\ sent' = sent
          /\ th' = [th EXCEPT ![t] = [@ EXCEPT !.pc = AfterDefault]]
    /\ UNCHANGED <<build, cfg, value, shown, queue, nextId, mainloop, dstate, busy, timer, pool, enq,
                   snap, removed, escaped, published>>

\* Fault variant of Deleted: the statement runs and removes no row.
DeletedNone(q, id) == q

\* The queue after the delete statement ran for id.
Deleted(q, id) == SelectSeq(q, LAMBDA r : r.id # id)

\* del.bind(1,id).exec(); del.reset(); select.reset(); sleep(delay);
SendDelete(t) ==
    /\ th[t].pc = "delete"
    /\ Touch
    /\ \/ /\ queue' = Deleted(queue, th[t].cur.id)
          /\ removed' = removed \cup ({th[t].cur.id} \cap Ids(queue))
          /\ th' = [th EXCEPT ![t] = [@ EXCEPT !.pc = "select", !.cur = NoRec]]
       \/ /\ SendExit(t, "store")                    \* exec throws
          /\ UNCHANGED <<queue, removed>>
    /\ UNCHANGED <<build, cfg, value, shown, sent, nextId, mainloop, dstate, busy, timer, pool, enq,
                   snap, calls, escaped, published>>

\* catch(...) { warning }  lock_guard; busy = false;
SendRelease(t) ==
    /\ th[t].pc = "release"
    /\ Touch
    /\ busy' = FALSE
    /\ th' = [th EXCEPT ![t] = IdleThread]
    /\ snap' = <<>>
    /\ calls' = <<>>
    /\ UNCHANGED <<build, cfg, value, shown, sent, queue, nextId, mainloop, dstate, timer, pool, enq,
                   removed, escaped, published>>

(***************************************************************************)
(* Entry points of a sweep in the guarded build.                           *)
(***************************************************************************)
\* The task Worker::get pushed: if(verify(protocol)) protocol->send();
PoolTask(t) ==
    /\ build = "guarded"
    /\ Free(t)
    /\ pool > 0
    /\ pool' = pool - 1
    /\ th' = [th EXCEPT ![t] = IF verify THEN [IdleThread EXCEPT !.pc = "guard", !.kind = "task"]
                                        ELSE IdleThread]
    /\ UNCHANGED <<build, cfg, value, shown, sent, queue, nextId, mainloop, dstate, busy, timer, enq,
                   snap, calls, removed, uaf, escaped, published>>

\* SQLite::Protocol::retry(): try { send(); } catch ... return false;
retry(t) ==
    /\ build = "guarded"
    /\ dstate = "Running"
    /\ Free(t)
    /\ th' = [th EXCEPT ![t] = [IdleThread EXCEPT !.pc = "guard", !.kind = "retry"]]
    /\ UNCHANGED <<build, cfg, value, shown, sent, queue, nextId, mainloop, dstate, busy, timer, pool, enq,
                   snap, calls, removed, uaf, escaped, published>>

(***************************************************************************)
(* The timer build: the main-loop callback and the task it pushes.         *)
(***************************************************************************)
\* No task of the object is queued or running.  The callback of a released
\* object is followed one task at a time.
Quiet == pool = 0 /\ \A t \in Threads : th[t].pc = "idle"

\* Fault variant of TickSkips: a tick starts a sweep whatever busy says.
TickSkipsNever(seen) == FALSE

\* if(!busy) { ... }  -- the value read makes the callback skip the sweep or not.
TickSkips(seen) == seen

\* MainLoop::reset(this, when_busy); if(!busy) { busy = true; push(task); }
\* busy is a plain bool the pool task writes without a lock: the callback reads
\* the value from before or from after TaskClear, as the interleaving has it.
TimerTick ==
    /\ build = "timer"
    /\ timer # "none"
    /\ mainloop
    /\ Gone => Quiet
    /\ Touch
    /\ timer' = reset("when_busy")
    /\ \E seen \in (IF Gone THEN BOOLEAN ELSE {busy}) :
          IF TickSkips(seen)
          THEN UNCHANGED <<busy, pool>>
          ELSE /\ busy' = TRUE
               /\ pool' = pool + 1
    /\ UNCHANGED <<build, cfg, value, shown, sent, queue, nextId, mainloop, dstate, th, enq,
                   snap, calls, removed, escaped, published>>

\* The pushed lambda starts: try { send(); }
TimerTask(t) ==
    /\ build = "timer"
    /\ Free(t)
    /\ pool > 0
    /\ pool' = pool - 1
    /\ th' = [th EXCEPT ![t] = [IdleThread EXCEPT !.pc = "select", !.kind = "task"]]
    /\ snap' = queue
    /\ calls' = <<>>
    /\ UNCHANGED <<build, cfg, value, shown, sent, queue, nextId, mainloop, dstate, busy, timer, enq,
                   removed, uaf, escaped, published>>

\* if(retry.notify && pending && *pending)
Notifies == cfg.notify /\ cfg.pending

\* After the catch blocks: if(...) { retry.state = make_shared<SQLState>(count()); }
TaskNotify(t) ==
    /\ th[t].pc = "notify"
    /\ Touch
    /\ \/ /\ Notifies                                \* count() returns
          /\ published' = SQLState(count)
          /\ th' = [th EXCEPT ![t] = [@ EXCEPT !.pc = "rearm"]]
          /\ UNCHANGED escaped
       \/ /\ Notifies                                \* count() throws: the lambda is left
          /\ escaped' = TRUE
          /\ th' = [th EXCEPT ![t] = IdleThread]
          /\ UNCHANGED published
       \/ /\ th' = [th EXCEPT ![t] = [@ EXCEPT !.pc = "rearm"]]
          /\ UNCHANGED <<published, escaped>>        \* not configured, or no SystemService
    /\ UNCHANGED <<build, cfg, value, shown, sent, queue, nextId, mainloop, dstate, busy, timer, pool, enq,
                   snap, calls, removed>>

\* MainLoop::getInstance().reset(this, retry.interval);
TaskRearm(t) ==
    /\ th[t].pc = "rearm"
    /\ Touch
    /\ timer' = reset("interval")
    /\ th' = [th EXCEPT ![t] = [@ EXCEPT !.pc = "clear"]]
    /\ UNCHANGED <<build, cfg, value, shown, sent, queue, nextId, mainloop, dstate, busy, pool, enq,
                   snap, calls, removed, escaped, published>>

\* busy = false;
TaskClear(t) ==
    /\ th[t].pc = "clear"
    /\ Touch
    /\ busy' = FALSE
    /\ th' = [th EXCEPT ![t] = IdleThread]
    /\ snap' = <<>>
    /\ calls' = <<>>
    /\ UNCHANGED <<build, cfg, value, shown, sent, queue, nextId, mainloop, dstate, timer, pool, enq,
                   removed, escaped, published>>

(***************************************************************************)
(* Status query of the guarded build.                                      *)
(***************************************************************************)
\* The agent asks the protocol for its state: state() returns.
StateCall ==
    /\ build = "guarded"
    /\ dstate = "Running"
    /\ shown' = state
    /\ UNCHANGED <<build, cfg, value, sent, queue, nextId, mainloop, dstate, busy, timer,
                   pool, th, enq, snap, calls, removed, uaf, escaped, published>>

(***************************************************************************)
(* Lifecycle.                                                              *)
(***************************************************************************)
\* ~Protocol of the guarded build: if(busy) ThreadPool::getInstance().wait();
\* the caller destroys the object while none of its methods is being called.
DestructorGuarded ==
    /\ build = "guarded"
    /\ dstate = "Running"
    /\ \A t \in Threads : th[t].kind # "retry"
    /\ dstate' = IF busy THEN "Waiting" ELSE "Stopped"
    /\ UNCHANGED <<build, cfg, value, shown, sent, queue, nextId, mainloop, busy, timer, pool, th, enq,
                   snap, calls, removed, uaf, escaped, published>>

\* ThreadPool::wait() returns: no task is queued or running.
DestructorWaited ==
    /\ dstate = "Waiting"
    /\ pool = 0
    /\ \A t \in Threads : th[t].pc = "idle"
    /\ dstate' = "Stopped"
    /\ UNCHANGED <<build, cfg, value, shown, sent, queue, nextId, mainloop, busy, timer, pool, th, enq,
                   snap, calls, removed, uaf, escaped, published>>

\* ~Protocol of the timer build: MainLoop::getInstance().remove(this);
DestructorTimer ==
    /\ build = "timer"
    /\ dstate = "Running"
    /\ timer' = "none"
    /\ dstate' = "Stopped"
    /\ UNCHANGED <<build, cfg, value, shown, sent, queue, nextId, mainloop, busy, pool, th, enq,
                   snap, calls, removed, uaf, escaped, published>>

\* The event loop is told to quit.
Shutdown ==
    /\ mainloop
    /\ mainloop' = FALSE
    /\ UNCHANGED <<build, cfg, value, shown, sent, queue, nextId, dstate, busy, timer, pool, th, enq,
                   snap, calls, removed, uaf, escaped, published>>

\* Fault variant of Constructed: construction recreates the table.
ConstructedEmpty(q) == <<>>

\* The queue table after the constructor ran (init statements set up the schema).
Constructed(q) == q

\* How the constructor ends: it returns, child_value() throws for a missing
\* insert/delete/select template (member initialisers, before the body), or
\* Database::exec() throws on an init statement (in the body).
Outcomes == {"ok", "template", "init"}

\* The object's timer when the constructor ends with outcome o: the body
\* registers the callback before it runs the init statements, and nothing
\* removes it when a later statement throws.
TimerAfter(o) == IF o = "template" THEN "none" ELSE Registered

\* The process stops and a fresh Protocol is constructed against the same
\* database: only the table outlives the process.
Restart ==
    /\ \E o \in Outcomes :
          /\ dstate' = IF o = "ok" THEN "Running" ELSE "Failed"
          /\ timer' = TimerAfter(o)
    /\ queue' = Constructed(queue)
    /\ mainloop' = TRUE
    /\ busy' = FALSE
    /\ pool' = 0
    /\ th' = [t \in Threads |-> IdleThread]
    /\ enq' = IdleClient
    /\ snap' = <<>>
    /\ calls' = <<>>
    /\ uaf' = FALSE
    /\ escaped' = FALSE
    /\ published' = NoStatus
    /\ shown' = NoStatus
    /\ UNCHANGED <<build, cfg, value, sent, nextId, removed>>

Next ==
    \/ WorkerGetExec
    \/ WorkerGetReturn
    \/ \E t \in Threads : PoolTask(t)
    \/ \E t \in Threads : retry(t)
    \/ \E t \in Threads : SendGuard(t)
    \/ \E t \in Threads : SendSelect(t)
    \/ \E t \in Threads : SendTransport(t)
    \/ \E t \in Threads : SendDelete(t)
    \/ \E t \in Threads : SendRelease(t)
    \/ TimerTick
    \/ \E t \in Threads : TimerTask(t)
    \/ \E t \in Threads : TaskNotify(t)
    \/ \E t \in Threads : TaskRearm(t)
    \/ \E t \in Threads : TaskClear(t)
    \/ DestructorGuarded
    \/ DestructorWaited
    \/ DestructorTimer
    \/ Shutdown
    \/ Restart

Spec == Init /\ [][Next]_vars

(***************************************************************************)
(* Properties.                                                             *)
(***************************************************************************)
InLoop(t) == th[t].pc \in {"select", "transport", "delete"}
Sweepers == {t \in Threads : InLoop(t)}
CallIds == {calls[i] : i \in 1..Len(calls)}

\* C1 -- single flight.  While the object has not been used after its
\* destruction, at most one thread is inside the sweep loop of send() and busy
\* is set while one is; an attempt that finds busy set leaves send() without a
\* select, a transport call or a delete.
C1_SingleFlight ==
    /\ [](~uaf => Cardinality(Sweepers) <= 1 /\ (Sweepers # {} => busy))
    /\ [][\A t \in Threads :
            (SendGuard(t) /\ ~Gone /\ busy)
               => /\ th'[t].pc = "idle"
                  /\ queue' = queue
                  /\ calls' = calls
                  /\ removed' = removed]_vars

\* Two attempts race: one thread sweeps while another is at the guard.
C1_Witness ==
    /\ ~uaf
    /\ \E t, u \in Threads : InLoop(t) /\ th[u].pc = "guard" /\ busy

\* Ids of the records of q that reach the transport, in q's order.
SentIds(q) ==
    LET f == SelectSeq(q, LAMBDA r : Transported(r.method))
    IN  [i \in 1..Len(f) |-> f[i].id]

\* The transport calls of the running sweep begin with the GET/POST records
\* the sweep found, in their order.
FoundFirst ==
    LET w == SentIds(snap) IN
      /\ Len(calls) >= Len(w)
      /\ SubSeq(calls, 1, Len(w)) = w

\* C2 -- no loss on transport failure.  When a sweep has ended on a transport
\* error for record k, every record the sweep found with an id below k has been
\* deleted, k and every later record it found are still queued; and a record a
\* sweep has in hand is always the first of the queue, so the next sweep starts
\* with k; a sweep that runs to the end of the queue has sent what it found,
\* k and the later records, in id order.
C2_NoLossOnTransportFailure ==
    ~uaf =>
      \A t \in Threads :
        /\ th[t].end = "transport" =>
              LET k == th[t].cur.id IN
                /\ k \in Ids(queue)
                /\ \A i \in Ids(snap) : IF i < k THEN i \notin Ids(queue)
                                                 ELSE i \in Ids(queue)
        /\ th[t].pc \in {"transport", "delete"} =>
              queue # <<>> /\ th[t].cur = queue[1]
        /\ th[t].end = "empty" => FoundFirst

\* A sweep that found two records delivered the first and failed on the second.
C2_Witness ==
    /\ ~uaf
    /\ \E t \in Threads :
          /\ th[t].end = "transport"
          /\ Len(snap) >= 2
          /\ th[t].cur.id = snap[2].id
          /\ snap[1].id \notin Ids(queue)

\* C3 as stated -- a record whose method is neither GET nor POST is never
\* removed from the queue.
C3_OtherMethodNeverDeleted ==
    [][\A i \in 1..Len(queue) :
          ~Transported(queue[i].method) => queue[i].id \in Ids(queue')]_vars

\* C3 as amended -- when the sweep meets a record whose method is neither GET
\* nor POST it makes no transport call and is not aborted: it goes on to the
\* delete statement, which removes the record like a delivered one, and then
\* to the next select.
C3_OtherMethodDropped ==
    /\ [](~uaf => \A t \in Threads :
            (th[t].pc = "delete" /\ ~Transported(th[t].cur.method))
               => th[t].cur.id \notin CallIds)
    /\ [][\A t \in Threads :
            (th[t].pc = "transport" /\ ~Transported(th[t].cur.method)
                /\ th'[t] # th[t] /\ th'[t].pc # "idle")
               => /\ th'[t].pc = "delete"
                  /\ th'[t].end = "none"
                  /\ calls' = calls
                  /\ queue' = queue]_vars
    /\ [][\A t \in Threads :
            (th[t].pc = "delete" /\ ~Transported(th[t].cur.method)
                /\ th'[t] # th[t] /\ th'[t].pc # "idle" /\ th'[t].end # "store")
               => /\ th'[t].pc = "select"
                  /\ th[t].cur.id \notin Ids(queue')]_vars

\* A sweep found a record with another method, deleted it without a transport
\* call and has the next record in hand.
C3_Witness ==
    /\ ~uaf
    /\ \E t \in Threads : \E i \in 1..Len(snap) :
          /\ th[t].pc \in {"transport", "delete"}
          /\ ~Transported(snap[i].method)
          /\ snap[i].id < th[t].cur.id
          /\ snap[i].id \notin Ids(queue)
          /\ snap[i].id \notin CallIds

\* C4 as stated -- at the moment Worker::get returns successfully the new
\* record is in the queue table and count(), when a pending template is
\* configured, includes it.
C4_ReturnedRecordQueued ==
    [][(WorkerGetReturn /\ enq'.result = "ok")
          => enq.id \in Ids(queue') /\ (cfg.pending => count' >= 1)]_vars

\* C4 as amended -- Worker::get returns successfully only after the insert has
\* been executed: the record is then in the queue table unless a sweep has
\* already deleted it.  Records leave the table only by a sweep's delete
\* statement, never by the construction of a fresh dispatcher on the same
\* database; and with a pending template count() is the number of queued records.
C4_DurableBeforeReturn ==
    /\ [](enq.pc = "inserted" => enq.id \in Ids(queue) \cup removed)
    /\ [][(WorkerGetReturn /\ enq'.result = "ok")
             => enq.id \in Ids(queue') \cup removed']_vars
    /\ [][Ids(queue) \ Ids(queue') \subseteq removed' \ removed]_vars
    /\ [](cfg.pending => count = Cardinality(Ids(queue)))

\* Worker::get has returned successfully, its record is queued and counted.
C4_Witness ==
    /\ enq.pc = "idle"
    /\ enq.result = "ok"
    /\ cfg.pending
    /\ (nextId - 1) \in Ids(queue)
    /\ count >= 1

\* C5 as stated -- a sweep that ran until the queue was empty issued transport
\* calls for exactly the records it found, in id order.
C5_ExactlyTheRecordsFound ==
    ~uaf => \A t \in Threads : th[t].end = "empty" => calls = SentIds(snap)

\* C5 as amended -- the transport calls of one sweep are in strictly ascending
\* id; a sweep that ran until the queue was empty issued them first for the
\* records r1..rn it found, in that order, and then, still in id order, for
\* the records inserted while it was running.
C5_FifoDelivery ==
    ~uaf =>
      /\ \A i, j \in 1..Len(calls) : i < j => calls[i] < calls[j]
      /\ \A t \in Threads : th[t].end = "empty" => FoundFirst

\* A sweep that found records delivered them and a record inserted meanwhile.
C5_Witness ==
    /\ ~uaf
    /\ \E t \in Threads :
          /\ th[t].end = "empty"
          /\ Len(snap) >= 1
          /\ Len(calls) > Len(snap)

\* C6 -- teardown ordering.  Once ~Protocol has returned no thread is inside a
\* sweep or a pool task of the object, no thread touches the object, and the
\* object has no timer.
C6_TeardownOrdering ==
    /\ ~uaf
    /\ dstate = "Stopped" => (\A t \in Threads : th[t].pc = "idle") /\ timer = "none"

(***************************************************************************)
(* The runs C7 is about: the main loop is never shut down, the object is   *)
(* not destroyed, the process is not restarted, and neither the transport  *)
(* nor the store ever fails.  The thread pool runs a pushed task, a thread *)
(* inside send() takes its next step, the main loop fires an armed timer   *)
(* and Worker::get returns: each is weakly fair.  Nothing in the sources   *)
(* schedules Worker::get or retry(), which stay possible but unforced.     *)
(***************************************************************************)
NoFault ==
    /\ mainloop
    /\ dstate = "Running"
    /\ ~escaped
    /\ enq.result # "error"
    /\ \A t \in Threads : th[t].end \notin {"store", "transport"}

ThreadStep(t) ==
    \/ PoolTask(t)
    \/ SendGuard(t)
    \/ SendSelect(t)
    \/ SendTransport(t)
    \/ SendDelete(t)
    \/ SendRelease(t)
    \/ TimerTask(t)
    \/ TaskNotify(t)
    \/ TaskRearm(t)
    \/ TaskClear(t)

LiveInit == Init /\ (build = "timer" => cfg.interval > 0)

LiveNext ==
    \/ WorkerGetExec /\ NoFault'
    \/ WorkerGetReturn /\ NoFault'
    \/ TimerTick /\ NoFault'
    \/ \E t \in Threads : retry(t) /\ NoFault'
    \/ \E t \in Threads : PoolTask(t) /\ NoFault'
    \/ \E t \in Threads : SendGuard(t) /\ NoFault'
    \/ \E t \in Threads : SendSelect(t) /\ NoFault'
    \/ \E t \in Threads : SendTransport(t) /\ NoFault'
    \/ \E t \in Threads : SendDelete(t) /\ NoFault'
    \/ \E t \in Threads : SendRelease(t) /\ NoFault'
    \/ \E t \in Threads : TimerTask(t) /\ NoFault'
    \/ \E t \in Threads : TaskNotify(t) /\ NoFault'
    \/ \E t \in Threads : TaskRearm(t) /\ NoFault'
    \/ \E t \in Threads : TaskClear(t) /\ NoFault'

LiveSpec ==
    /\ LiveInit
    /\ [][LiveNext]_vars
    /\ WF_vars(WorkerGetReturn /\ NoFault')
    /\ WF_vars(TimerTick /\ NoFault')
    /\ \A t \in Threads : WF_vars(ThreadStep(t) /\ NoFault')

\* The GET/POST record with id i is queued.
Pending(i) == \E k \in 1..Len(queue) : queue[k].id = i /\ Transported(queue[k].method)

\* C7 -- eventual delivery.  With the main loop running for ever and the
\* transport and the store never failing, every queued GET/POST record is
\* eventually sent and deleted, with no further call of Worker::get needed.
C7_EventualDelivery ==
    \A i \in 1..MaxId : Pending(i) ~> (i \notin Ids(queue))

\* C8 -- error containment.  No exception leaves a pool task.
C8_ErrorsContained == ~escaped

\* C9 -- cancellation point.  Once the loop condition of a sweep has seen the
\* main loop stopped, the sweep issues no transport call and no delete, reports
\* no error, and busy is false when its thread is done.
C9_CancellationPoint ==
    [][\A t \in Threads :
          th[t].end = "cancel"
             => /\ removed' = removed
                /\ Ids(queue) \subseteq Ids(queue')
                /\ calls' \in {calls, <<>>}
                /\ th'[t].end \in {"cancel", "none"}
                /\ ~escaped'
                /\ (th'[t].pc = "idle" => ~busy')]_vars

\* C10 -- a failed insert is synchronous and without effect: Worker::get is
\* left with the error, the table, the timer and the pool are as before, and
\* nothing of the call (timer reset, task push) is still to come.
C10_EnqueueFailureNoEffect ==
    /\ [][(WorkerGetExec /\ enq'.result = "error")
             => /\ queue' = queue
                /\ nextId' = nextId
                /\ timer' = timer
                /\ pool' = pool
                /\ enq'.pc = "idle"]_vars
    /\ [](enq.result = "error" => enq.pc = "idle")

\* An insert failed while a record was queued.
C10_Witness ==
    /\ enq.result = "error"
    /\ enq.pc = "idle"
    /\ queue # <<>>

(***************************************************************************)
(* Status labels: the functions state() and SQLState applied to every      *)
(* count up to MaxCount.                                                   *)
(***************************************************************************)
\* A queue table holding n GET records.
Rows(n) == [i \in 1..n |-> [id |-> i, method |-> "GET"]]

\* The pool task of the timer build as its sweep has just ended: at the empty
\* queue, or at the first record with a transport error.
AtNotify(n) ==
    [pc |-> "notify", cur |-> NoRec, end |-> IF n = 0 THEN "empty" ELSE "transport",
     kind |-> "task"]

\* The guarded build answers state() for any stored value; the timer build is
\* about to publish the state of a queue of any length.
StatusInit ==
    /\ build \in Builds
    /\ cfg \in Configs
    /\ (build = "guarded" => cfg.interval = 0 /\ cfg.notify = cfg.pending)
    /\ (build = "timer" => cfg.interval > 0)
    /\ \E n \in 0..MaxCount :
          /\ queue = Rows(n)
          /\ nextId = n + 1
          /\ th = [t \in Threads |->
                     IF build = "timer" /\ t = 1 THEN AtNotify(n) ELSE IdleThread]
          /\ calls = IF build = "timer" /\ n > 0 THEN <<1>> ELSE <<>>
          /\ sent = {}
    /\ value \in (IF build = "guarded" THEN 0..MaxCount ELSE {0})
    /\ snap = (IF build = "timer" THEN queue ELSE <<>>)
    /\ busy = (build = "timer")
    /\ timer = (IF build = "timer" THEN "when_busy" ELSE "none")
    /\ mainloop = TRUE
    /\ dstate = "Running"
    /\ pool = 0
    /\ enq = IdleClient
    /\ removed = {}
    /\ uaf = FALSE
    /\ escaped = FALSE
    /\ published = NoStatus
    /\ shown = NoStatus

StatusNext ==
    \/ StateCall
    \/ \E t \in Threads : TaskNotify(t)

StatusSpec == StatusInit /\ [][StatusNext]_vars

RECURSIVE Number(_)
\* The number a sequence of decimal digits writes.
Number(ds) == IF ds = <<>> THEN 0 ELSE Number(SubSeq(ds, 1, Len(ds) - 1)) * 10 + ds[Len(ds)]

\* The summary st carries the literal value c: its digits, no leading zero.
Carries(st, c) == st.number # <<>> /\ st.number[1] # 0 /\ Number(st.number) = c

\* C11 -- status mapping.  A status state() produces for the count c it
\* classifies, and a status published after a sweep for the count c it
\* queried, has the empty label when c = 0, the singular label when c = 1 and
\* the plural label carrying the literal value c when c > 1.
C11_StatusMapping ==
    [][ /\ (StateCall /\ cfg.pending) =>
             /\ value = 0 => /\ shown'.name = "empty"
                             /\ shown'.number = <<>>
                             /\ shown'.text = "Output queue is empty"
             /\ value = 1 => /\ shown'.name = "pending"
                             /\ shown'.number = <<>>
                             /\ shown'.text = "One pending request in the output queue"
             /\ value > 1 => /\ shown'.name = "pending"
                             /\ Carries(shown', value)
                             /\ shown'.text = " pending requests in the output queue"
        /\ \A t \in Threads : (TaskNotify(t) /\ published' # published) =>
             /\ published'.value = count
             /\ count = 0 => /\ published'.number = <<>>
                             /\ published'.text = "No pending messages"
             /\ count = 1 => /\ published'.number = <<>>
                             /\ published'.text = "1 pending message"
             /\ count > 1 => /\ Carries(published', count)
                             /\ published'.text = " pending messages"
      ]_vars

\* A plural label of two digits has been published, and state() has produced one.
C11_Witness ==
    \/ published.value > 9 /\ Len(published.number) = 2
    \/ shown.name = "pending" /\ Len(shown.number) = 2

(***************************************************************************)
(* The status against the queue.  state() is a const method: it changes    *)
(* nothing but what its caller holds, so the dispatcher's behaviours are   *)
(* those of Spec with calls of state() in between.                         *)
(***************************************************************************)
QueryNext ==
    \/ StateCall
    \/ WorkerGetExec
    \/ WorkerGetReturn
    \/ \E t \in Threads : PoolTask(t)
    \/ \E t \in Threads : retry(t)
    \/ \E t \in Threads : SendGuard(t)
    \/ \E t \in Threads : SendSelect(t)
    \/ \E t \in Threads : SendTransport(t)
    \/ \E t \in Threads : SendDelete(t)
    \/ \E t \in Threads : SendRelease(t)
    \/ TimerTick
    \/ \E t \in Threads : TimerTask(t)
    \/ \E t \in Threads : TaskNotify(t)
    \/ \E t \in Threads : TaskRearm(t)
    \/ \E t \in Threads : TaskClear(t)
    \/ DestructorGuarded
    \/ DestructorWaited
    \/ DestructorTimer
    \/ Shutdown
    \/ Restart

QuerySpec == Init /\ [][QueryNext]_vars

\* The class of a count: none, one, or more.
ClassOf(n) == IF n = 0 THEN "empty" ELSE IF n = 1 THEN "one" ELSE "many"

\* The class a status label stands for.
ClassOfLabel(st) ==
    IF st.text \in {"Output queue is empty", "No pending messages"} THEN "empty"
    ELSE IF st.text \in {"One pending request in the output queue", "1 pending message"}
    THEN "one"
    ELSE IF st.number # <<>> THEN "many"
    ELSE "none"

\* C12 -- the status is derived, not stored.  With a pending template
\* configured, a status state() returns, and a status published after a
\* sweep, classifies the number of records in the queue at that moment.
C12_StatusIsLive ==
    [][ /\ (StateCall /\ cfg.pending) => ClassOfLabel(shown') = ClassOf(Len(queue))
        /\ \A t \in Threads : (TaskNotify(t) /\ published' # published) =>
              ClassOfLabel(published') = ClassOf(Len(queue))
      ]_vars

\* A sweep is queued or running: a pool task waits, or a thread is past the
\* guard of send().
SweepAlive == pool > 0 \/ \E t \in Threads : th[t].pc \notin {"idle", "guard"}

\* C13 -- the busy flag is always released.  The worker that set busy clears
\* it on every way out of the sweep, so busy is never left set with no sweep
\* queued or running to clear it.
C13_BusyReleased == (~uaf /\ busy) => SweepAlive

\* C14 -- a construction failure leaves nothing behind.  After the
\* constructor threw, no timer callback of the object is registered and no
\* sweep task of it is queued or running.
C14_NothingLeftBehind ==
    dstate = "Failed" => (timer = "none" /\ pool = 0 /\ \A t \in Threads : th[t].pc = "idle")

\* C15 -- timer tick while busy.  A tick that finds busy set pushes no task
\* and changes neither busy, the queue nor any sweep: it only re-arms the
\* timer at when_busy.  A tick that finds busy clear sets it as it pushes the
\* task, so a queued task of the timer build always has busy set.
C15_TickWhileBusy ==
    /\ [](build = "timer" /\ ~uaf /\ pool > 0 => busy)
    /\ [][ (TimerTick /\ ~Gone) =>
              IF busy
              THEN /\ timer' = "when_busy"
                   /\ busy' /\ pool' = pool
                   /\ queue' = queue /\ th' = th /\ calls' = calls /\ removed' = removed
              ELSE busy' /\ pool' = pool + 1
       ]_vars

\* A tick has fired during the last step of a running task: the task re-armed
\* the timer at interval and has not yet cleared busy, the timer is at when_busy.
C15_Witness ==
    /\ build = "timer" /\ ~uaf /\ busy /\ pool = 0 /\ timer = "when_busy"
    /\ \E t \in Threads : th[t].pc = "clear"

\* Steps left in the iteration a thread is in.
Rank(p) == CASE p = "select" -> 3 [] p = "transport" -> 2 [] p = "delete" -> 1 [] OTHER -> 0

\* What a sweep has left to do at most: three steps for each record queued
\* and each record that may still be enqueued, and the rest of its iteration.
Measure(t) == 3 * (Len(queue) + (MaxId + 1 - nextId)) + Rank(th[t].pc)

\* C16 -- sweep progress and termination.  On a live object, an iteration
\* that completes removes exactly the record it selected and goes back to the
\* select, which takes the first record of the table again; every step of a
\* sweep decreases Measure and no other step increases it, so the sweep ends;
\* and it ends at the empty queue, on shutdown, or at the first error.
C16_SweepTerminates ==
    [][\A t \in Threads :
         /\ (SendDelete(t) /\ th'[t].pc = "select" /\ ~uaf') =>
               /\ th[t].cur.id \in Ids(queue)
               /\ Ids(queue') = Ids(queue) \ {th[t].cur.id}
               /\ Len(queue') = Len(queue) - 1
               /\ th'[t].cur = NoRec
         /\ (SendSelect(t) /\ th'[t].pc = "transport") => th'[t].cur = queue[1]
         /\ (InLoop(t) /\ InLoop(t)' /\ ~uaf') => Measure(t)' <= Measure(t)
         /\ (InLoop(t) /\ InLoop(t)' /\ th'[t] # th[t] /\ ~uaf') => Measure(t)' < Measure(t)
         /\ (InLoop(t) /\ ~InLoop(t)' /\ th'[t].pc # "idle") =>
               /\ th'[t].pc = AfterLoop
               /\ th'[t].end \in {"empty", "cancel", "transport", "store"}
               /\ th'[t].end = "empty" => queue = <<>>
               /\ th'[t].end = "cancel" => ~LoopGoesOn
      ]_vars

\* A sweep has sent and deleted two records and ended at the empty queue.
C16_Witness ==
    /\ ~uaf /\ Len(calls) >= 2 /\ queue = <<>>
    /\ \E t \in Threads : th[t].pc = AfterLoop /\ th[t].end = "empty"

(***************************************************************************)
(* The runs C17 is about: the process is not restarted and the delete      *)
(* statement never fails.                                                  *)
(***************************************************************************)
CleanNext ==
    \/ WorkerGetExec
    \/ WorkerGetReturn
    \/ \E t \in Threads : PoolTask(t)
    \/ \E t \in Threads : retry(t)
    \/ \E t \in Threads : SendGuard(t)
    \/ \E t \in Threads : SendSelect(t)
    \/ \E t \in Threads : SendTransport(t)
    \/ \E t \in Threads : SendDelete(t) /\ th'[t].end # "store"
    \/ \E t \in Threads : SendRelease(t)
    \/ TimerTick
    \/ \E t \in Threads : TimerTask(t)
    \/ \E t \in Threads : TaskNotify(t)
    \/ \E t \in Threads : TaskRearm(t)
    \/ \E t \in Threads : TaskClear(t)
    \/ DestructorGuarded
    \/ DestructorWaited
    \/ DestructorTimer
    \/ Shutdown

CleanSpec == Init /\ [][CleanNext]_vars

\* C17 -- no duplicate delivery without failure.  On a live object, a record
\* a transport call has completed for gets no further transport call, and it
\* stays in the queue only while the thread that sent it is about to delete
\* it, before any select runs again.
C17_NoDuplicateDelivery ==
    /\ [][\A t \in Threads :
            (SendTransport(t) /\ Transported(th[t].cur.method) /\ ~uaf') =>
                th[t].cur.id \notin sent]_vars
    /\ [](~uaf => \A i \in sent \cap Ids(queue) :
                    /\ \E t \in Threads : th[t].pc = "delete" /\ th[t].cur.id = i
                    /\ \A t \in Threads : th[t].pc # "select")

\* Record 1 has been delivered and deleted, and a sweep is sending record 2.
C17_Witness ==
    /\ ~uaf /\ 1 \in sent /\ 1 \notin Ids(queue)
    /\ \E t \in Threads : th[t].pc = "transport" /\ th[t].cur.id = 2
====
